---- MODULE Spec2Model ----
(***************************************************************************)
(* A model of src/network.py: the Network class (process, add_layer,       *)
(* train, save, load) over the Layer and Neuron classes it imports.        *)
(*                                                                         *)
(* Numbers are exact rationals <<numerator, denominator>> in lowest terms, *)
(* of numerator and denominator up to Limit.  Python computes on ints and  *)
(* floats; on such values (small integers and fractions whose denominator  *)
(* is a power of two) the two agree.  tanh and the logistic function are   *)
(* exact at 0 only.  A value outside this range is Unheld, and a call is   *)
(* explored only when every number it computes is held.                    *)
(***************************************************************************)
EXTENDS Integers, Sequences, FiniteSets, TLC

\* ------------------------------------------------------------------ bounds
MaxLayers == 3
MaxNeurons == 2
MaxTrain == 2
\* The depth of the networks and the number of train calls of SpecTrain and
\* SpecCodec.
MaxDepth == 2
MaxCalls == 1
Limit == 10000

\* --------------------------------------------------------------- numbers
RECURSIVE GCD(_, _)
GCD(a, b) == IF b = 0 THEN a ELSE GCD(b, a % b)

Abs(n) == IF n < 0 THEN -n ELSE n

\* Python's None where a number is expected (an attribute not yet set).
NoneNum == <<0, 0>>
\* A number the model does not hold.
Unheld == <<1, 0>>

\* The number n / d, for d > 0.
Rat(n, d) ==
  LET g == GCD(Abs(n), d)
  IN  IF Abs(n) \div g > Limit \/ d \div g > Limit THEN Unheld
      ELSE <<n \div g, d \div g>>

Num(n) == <<n, 1>>
Half == <<1, 2>>

Held(x) == x[2] > 0
RAdd(x, y) ==
  IF Held(x) /\ Held(y) THEN Rat(x[1] * y[2] + y[1] * x[2], x[2] * y[2])
  ELSE Unheld
RSub(x, y) ==
  IF Held(x) /\ Held(y) THEN Rat(x[1] * y[2] - y[1] * x[2], x[2] * y[2])
  ELSE Unheld
RMul(x, y) ==
  IF Held(x) /\ Held(y) THEN Rat(x[1] * y[1], x[2] * y[2]) ELSE Unheld
RLess(x, y) == x[1] * y[2] < y[1] * x[2]
RAbs(x) == <<Abs(x[1]), x[2]>>

RECURSIVE RSum(_)
RSum(s) == IF s = <<>> THEN Num(0) ELSE RAdd(Head(s), RSum(Tail(s)))

\* ------------------------------------------------- the activation registry
LINEAR == 0
TANH == 1
SIGMOID == 2
STEP == 3

\* A function object is modelled by its name; == on functions is identity.
ACTIVATION_LINEAR == "ACTIVATION_LINEAR"
ACTIVATION_TANH == "ACTIVATION_TANH"
ACTIVATION_SIGMOID == "ACTIVATION_SIGMOID"
ACTIVATION_STEP == "ACTIVATION_STEP"
DERIVATIVE_LINEAR == "DERIVATIVE_LINEAR"
DERIVATIVE_TANH == "DERIVATIVE_TANH"
DERIVATIVE_SIGMOID == "DERIVATIVE_SIGMOID"
DERIVATIVE_STEP == "DERIVATIVE_STEP"

\* Python's None where a function is expected.
NoneFn == "None"
\* A caller's own function, lambda x: x, which is none of the registered ones.
CallerFn == "caller_lambda"

Registered ==
  {ACTIVATION_LINEAR, ACTIVATION_TANH, ACTIVATION_SIGMOID, ACTIVATION_STEP}

\* f(x) for an activation f (a callable one).
Activate(f, x) ==
  CASE ~Held(x) -> Unheld
    [] f = ACTIVATION_LINEAR -> x
    [] f = ACTIVATION_TANH -> IF x = Num(0) THEN Num(0) ELSE Unheld
    [] f = ACTIVATION_SIGMOID -> IF x = Num(0) THEN Half ELSE Unheld
    [] f = ACTIVATION_STEP -> IF ~RLess(x, Num(0)) THEN Num(1) ELSE Num(0)
    [] OTHER -> x

\* f(x) for a derivative f.
Derive(f, x) ==
  CASE ~Held(x) -> Unheld
    [] f = DERIVATIVE_LINEAR -> Num(1)
    [] f = DERIVATIVE_TANH -> RSub(Num(1), RMul(x, x))
    [] f = DERIVATIVE_SIGMOID -> RMul(x, RSub(Num(1), x))
    [] f = DERIVATIVE_STEP ->
         IF RLess(RAbs(x), Rat(1, 10000)) THEN Num(0) ELSE Num(1)
    [] OTHER -> NoneNum

\* ------------------------------------------------------- Neuron and Layer
\* Neuron(num_inputs, activation, derivative), every weight w and the bias b
\* (the initial values are the constructor's choice).
Neuron(num_inputs, activation, derivative, w, b) ==
  [weights |-> [i \in 1..num_inputs |-> w], bias |-> b,
   activation |-> activation, derivative |-> derivative,
   last_input |-> <<>>, last_output |-> NoneNum,
   error |-> NoneNum, delta |-> NoneNum]

\* Layer(num_neurons, num_inputs, activation, derivative)
Layer(num_neurons, num_inputs, activation, derivative, w, b) ==
  [neurons |->
     [j \in 1..num_neurons |-> Neuron(num_inputs, activation, derivative, w, b)]]

RECURSIVE Dot(_, _)
Dot(ws, xs) ==
  IF ws = <<>> THEN Num(0)
  ELSE RAdd(RMul(Head(ws), Head(xs)), Dot(Tail(ws), Tail(xs)))

\* Neuron.process(input)
NeuronProcess(neuron, input) ==
  IF Len(input) # Len(neuron.weights)
  THEN [ok |-> FALSE, kind |-> "DimensionMismatch",
        neuron |-> neuron, out |-> NoneNum]
  ELSE IF neuron.activation = NoneFn
  THEN [ok |-> FALSE, kind |-> "TypeError",
        neuron |-> neuron, out |-> NoneNum]
  ELSE LET x == RAdd(Dot(neuron.weights, input), neuron.bias)
           y == Activate(neuron.activation, x)
       IN  [ok |-> TRUE, kind |-> "",
            neuron |-> [neuron EXCEPT !.last_input = input, !.last_output = y],
            out |-> y]

\* Layer.process(input), from neuron j on, outs being the outputs so far.
RECURSIVE LayerProcessFrom(_, _, _, _)
LayerProcessFrom(layer, input, j, outs) ==
  IF j > Len(layer.neurons)
  THEN [ok |-> TRUE, kind |-> "", layer |-> layer, outputs |-> outs]
  ELSE LET r == NeuronProcess(layer.neurons[j], input)
       IN  IF ~r.ok
           THEN [ok |-> FALSE, kind |-> r.kind, layer |-> layer, outputs |-> outs]
           ELSE LayerProcessFrom([layer EXCEPT !.neurons[j] = r.neuron], input,
                                 j + 1, Append(outs, r.out))

LayerProcess(layer, input) == LayerProcessFrom(layer, input, 1, <<>>)

\* ------------------------------------------------------- Network.process
\* The loop of process from layer i on; none says that outputs is still None.
RECURSIVE ProcessFrom(_, _, _, _, _)
ProcessFrom(ls, i, inputs, outputs, none) ==
  IF i > Len(ls)
  THEN [ok |-> TRUE, kind |-> "", layers |-> ls, outputs |-> outputs,
        none |-> none]
  ELSE LET r == LayerProcess(ls[i], inputs)
       IN  IF ~r.ok
           THEN [ok |-> FALSE, kind |-> r.kind,
                 layers |-> [ls EXCEPT ![i] = r.layer],
                 outputs |-> <<>>, none |-> TRUE]
           ELSE ProcessFrom([ls EXCEPT ![i] = r.layer], i + 1, r.outputs,
                            r.outputs, FALSE)

\* process with outputs starting as the inputs rather than as None.
NetworkProcessEcho(ls, inputs) == ProcessFrom(ls, 1, inputs, inputs, FALSE)

\* process(inputs): outputs is None until a layer has run.
NetworkProcess(ls, inputs) == ProcessFrom(ls, 1, inputs, <<>>, TRUE)

\* ----------------------------------------------------- Network.add_layer
\* Python's None where a count is expected.
NoneInt == -1

\* The derivative add_layer pairs with an activation.
DerivativeOf(activation) ==
  CASE activation = ACTIVATION_LINEAR -> DERIVATIVE_LINEAR
    [] activation = ACTIVATION_SIGMOID -> DERIVATIVE_SIGMOID
    [] activation = ACTIVATION_TANH -> DERIVATIVE_TANH
    [] activation = ACTIVATION_STEP -> DERIVATIVE_STEP
    [] OTHER -> NoneFn

\* The width the docstring words: the number of inputs of the last layer.
WidthOfInputs(last_layer) ==
  IF last_layer.neurons = <<>> THEN 0 ELSE Len(last_layer.neurons[1].weights)

\* Line 94: the width a layer inherits, the neuron count of the last layer.
InheritedWidth(last_layer) == Len(last_layer.neurons)

\* add_layer's result: the failure of layers[-1] on an empty list, or the
\* layers with one more.
NetworkAddLayer(ls, num_neurons, num_inputs, activation, w, b) ==
  IF num_inputs = NoneInt /\ Len(ls) = 0
  THEN [ok |-> FALSE, kind |-> "IndexError", layers |-> ls]
  ELSE LET ni == IF num_inputs = NoneInt THEN InheritedWidth(ls[Len(ls)])
                 ELSE num_inputs
           act == IF activation = NoneFn THEN ACTIVATION_SIGMOID ELSE activation
       IN  [ok |-> TRUE, kind |-> "",
            layers |-> Append(ls, Layer(num_neurons, ni, act, DerivativeOf(act), w, b))]

\* --------------------------------------------------------- Network.train
\* A loop over the output neurons and the targets in step, as zip pairs them.
OutputCountZipped(output_layer, targets) ==
  IF Len(targets) < Len(output_layer.neurons) THEN Len(targets)
  ELSE Len(output_layer.neurons)

\* Line 125: the number of rounds of the output layer's loop.
OutputCount(output_layer, targets) == Len(output_layer.neurons)

\* The output layer's loop (lines 125-131) from neuron k on: the error, the
\* loss and the delta of each output neuron.
RECURSIVE OutputPass(_, _, _, _, _)
OutputPass(ls, outputs, targets, k, loss) ==
  LET L == Len(ls) IN
  IF k > OutputCount(ls[L], targets)
  THEN [ok |-> TRUE, kind |-> "", layers |-> ls, loss |-> loss]
  ELSE IF k > Len(targets)
  THEN [ok |-> FALSE, kind |-> "IndexError", layers |-> ls, loss |-> loss]
  ELSE LET neuron == ls[L].neurons[k]
           err == RSub(targets[k], outputs[k])
           ls1 == [ls EXCEPT ![L].neurons[k].error = err]
           loss1 == RAdd(loss, RMul(Half, RMul(err, err)))
       IN  IF neuron.derivative = NoneFn
           THEN [ok |-> FALSE, kind |-> "TypeError", layers |-> ls1, loss |-> loss1]
           ELSE OutputPass(
                  [ls1 EXCEPT ![L].neurons[k].delta =
                     RMul(Derive(neuron.derivative, neuron.last_output), err)],
                  outputs, targets, k + 1, loss1)

\* The name rebound by line 142, to the last neuron of the next layer (a
\* comprehension whose variable leaks into the function's scope).
DeriveSourceLeaked(ls, k) == <<k + 1, Len(ls[k + 1].neurons)>>

\* The neuron the name `neuron` is bound to at line 145, as <<layer, index>>:
\* the one the output layer's loop bound last (a list comprehension has its
\* own scope, so line 142 does not rebind it).  Index 0: the name is unbound.
DeriveSource(ls, k) == <<Len(ls), Len(ls[Len(ls)].neurons)>>

\* Line 142 with the weights indexed one too far.
ErrorDefinedOffByOne(layer_next, l) ==
  \A m \in 1..Len(layer_next.neurons) :
    l + 1 <= Len(layer_next.neurons[m].weights)

\* Line 142: whether every neuron of the next layer has a weight for input l.
ErrorDefined(layer_next, l) ==
  \A m \in 1..Len(layer_next.neurons) : l <= Len(layer_next.neurons[m].weights)

\* Line 142: the sum of weights[l] * delta over the next layer's neurons.
ErrorOf(layer_next, l) ==
  RSum([m \in 1..Len(layer_next.neurons) |->
          RMul(layer_next.neurons[m].weights[l], layer_next.neurons[m].delta)])

\* Lines 152-157 with the bias moved by the neuron's error, as the weights are.
UpdateNeuronByError(neuron_m, learn_rate) ==
  [ok |-> TRUE,
   neuron |->
     [neuron_m EXCEPT
        !.weights = [n \in 1..Len(neuron_m.weights) |->
                       RAdd(neuron_m.weights[n],
                            RMul(RMul(learn_rate, neuron_m.last_input[n]),
                                 neuron_m.error))],
        !.bias = RAdd(neuron_m.bias, RMul(learn_rate, neuron_m.error))]]

\* Lines 152-157 for one neuron of the next layer: every weight, then the bias.
UpdateNeuron(neuron_m, learn_rate) ==
  LET reach == IF Len(neuron_m.last_input) < Len(neuron_m.weights)
               THEN Len(neuron_m.last_input) ELSE Len(neuron_m.weights)
      weights == [n \in 1..Len(neuron_m.weights) |->
                    IF n <= reach
                    THEN RAdd(neuron_m.weights[n],
                              RMul(RMul(learn_rate, neuron_m.last_input[n]),
                                   neuron_m.error))
                    ELSE neuron_m.weights[n]]
  IN  IF reach < Len(neuron_m.weights)
      THEN [ok |-> FALSE, neuron |-> [neuron_m EXCEPT !.weights = weights]]
      ELSE [ok |-> TRUE,
            neuron |-> [neuron_m EXCEPT !.weights = weights,
                          !.bias = RAdd(neuron_m.bias,
                                        RMul(learn_rate, neuron_m.delta))]]

\* The layer adjusted being the current one, as in textbook backpropagation.
UpdatedLayerCurrent(k) == k

\* Lines 148-149: the layer whose neurons are adjusted while layer k is the
\* current one: layer_next.
UpdatedLayer(k) == k + 1

\* Lines 148-157: the loop over the next layer's neurons, from m on, run
\* while neuron l of layer k is the current one.  log gets one entry for
\* each bias increment.
RECURSIVE UpdateNext(_, _, _, _, _, _)
UpdateNext(ls, k, l, m, learn_rate, log) ==
  LET j == UpdatedLayer(k) IN
  IF m > Len(ls[j].neurons)
  THEN [ok |-> TRUE, kind |-> "", layers |-> ls, log |-> log]
  ELSE LET u == UpdateNeuron(ls[j].neurons[m], learn_rate)
           ls1 == [ls EXCEPT ![j].neurons[m] = u.neuron]
       IN  IF ~u.ok
           THEN [ok |-> FALSE, kind |-> "IndexError", layers |-> ls1, log |-> log]
           ELSE UpdateNext(ls1, k, l, m + 1, learn_rate,
                  Append(log, [layer |-> j, m |-> m, l |-> l,
                               inc |-> RSub(u.neuron.bias,
                                            ls[j].neurons[m].bias)]))

\* Lines 139-157: the loop over the neurons of layer k, from l on.
RECURSIVE NeuronLoop(_, _, _, _, _)
NeuronLoop(ls, k, l, learn_rate, log) ==
  IF l > Len(ls[k].neurons)
  THEN [ok |-> TRUE, kind |-> "", layers |-> ls, log |-> log]
  ELSE IF ~ErrorDefined(ls[k + 1], l)
  THEN [ok |-> FALSE, kind |-> "IndexError", layers |-> ls, log |-> log]
  ELSE LET err == ErrorOf(ls[k + 1], l)
           ls1 == [ls EXCEPT ![k].neurons[l].error = err]
           src == DeriveSource(ls, k)
       IN  IF src[2] = 0
           THEN [ok |-> FALSE, kind |-> "UnboundLocalError", layers |-> ls1,
                 log |-> log]
           ELSE LET neuron == ls1[src[1]].neurons[src[2]]
                    ls2 == [ls1 EXCEPT ![k].neurons[l].delta =
                              RMul(Derive(neuron.derivative, neuron.last_output),
                                   err)]
                    u == UpdateNext(ls2, k, l, 1, learn_rate, log)
                IN  IF ~u.ok THEN u
                    ELSE NeuronLoop(u.layers, k, l + 1, learn_rate, u.log)

\* Lines 134-157: the loop over the layers, from layer k down to the first
\* (layers are numbered from 1 here, from 0 in the code).
RECURSIVE LayerLoop(_, _, _, _)
LayerLoop(ls, k, learn_rate, log) ==
  IF k < 1
  THEN [ok |-> TRUE, kind |-> "", layers |-> ls, log |-> log]
  ELSE LET r == NeuronLoop(ls, k, 1, learn_rate, log)
       IN  IF ~r.ok THEN r ELSE LayerLoop(r.layers, k - 1, learn_rate, r.log)

\* train reading the layer before the output layer too, layers[-2].
TwoLayersDefined(ls) == Len(ls) >= 2

\* Line 118: whether layers[-1] exists.
OutputLayerDefined(ls) == Len(ls) >= 1

\* train(inputs, targets, learn_rate): how the call ends, the layers it
\* leaves, the loss it returns and the bias increments it made.
NetworkTrain(ls, inputs, targets, learn_rate) ==
  IF ~OutputLayerDefined(ls)
  THEN [ok |-> FALSE, kind |-> "IndexError", layers |-> ls,
        loss |-> NoneNum, log |-> <<>>]
  ELSE LET p == NetworkProcess(ls, inputs) IN
       IF ~p.ok
       THEN [ok |-> FALSE, kind |-> p.kind,
             layers |-> p.layers, loss |-> NoneNum, log |-> <<>>]
       ELSE LET o == OutputPass(p.layers, p.outputs, targets, 1, Num(0)) IN
            IF ~o.ok
            THEN [ok |-> FALSE, kind |-> o.kind,
                  layers |-> o.layers, loss |-> NoneNum, log |-> <<>>]
            ELSE LET b == LayerLoop(o.layers, Len(ls) - 1, learn_rate, <<>>) IN
                 [ok |-> b.ok, kind |-> b.kind,
                  layers |-> b.layers,
                  loss |-> IF b.ok THEN o.loss ELSE NoneNum, log |-> b.log]

\* ---------------------------------------------------- Network.save / load
\* The file at the path: absent, or text that is no JSON document, or a JSON
\* document.  An object is modelled by the keys it holds and their values;
\* null is NoneInt where a tag is expected.
NeuronKeys == {"weights", "bias", "activation"}

NoFile == [form |-> "missing", hasLayers |-> FALSE, layers |-> <<>>]
Garbage == [form |-> "malformed", hasLayers |-> FALSE, layers |-> <<>>]

\* Lines 183-187: the tag save writes for an activation.
EnumOf(activation) ==
  CASE activation = ACTIVATION_LINEAR -> LINEAR
    [] activation = ACTIVATION_SIGMOID -> SIGMOID
    [] activation = ACTIVATION_TANH -> TANH
    [] activation = ACTIVATION_STEP -> STEP
    [] OTHER -> NoneInt

\* Lines 238-251 with the tags tested in the order of save's chain.
FunctionsOfSwapped(tag) ==
  CASE tag = LINEAR -> <<ACTIVATION_LINEAR, DERIVATIVE_LINEAR>>
    [] tag = TANH -> <<ACTIVATION_SIGMOID, DERIVATIVE_SIGMOID>>
    [] tag = SIGMOID -> <<ACTIVATION_TANH, DERIVATIVE_TANH>>
    [] tag = STEP -> <<ACTIVATION_STEP, DERIVATIVE_STEP>>
    [] OTHER -> <<NoneFn, NoneFn>>

\* Lines 238-251: the activation and the derivative load chooses for a tag.
FunctionsOf(tag) ==
  CASE tag = LINEAR -> <<ACTIVATION_LINEAR, DERIVATIVE_LINEAR>>
    [] tag = SIGMOID -> <<ACTIVATION_SIGMOID, DERIVATIVE_SIGMOID>>
    [] tag = TANH -> <<ACTIVATION_TANH, DERIVATIVE_TANH>>
    [] tag = STEP -> <<ACTIVATION_STEP, DERIVATIVE_STEP>>
    [] OTHER -> <<NoneFn, NoneFn>>

\* Lines 190-193: the dictionary save builds for a neuron.
NeuronData(neuron) ==
  [keys |-> NeuronKeys, weights |-> neuron.weights, bias |-> neuron.bias,
   activation |-> EnumOf(neuron.activation)]

\* save(path, network): the document written to the path.
NetworkSave(ls) ==
  [form |-> "json", hasLayers |-> TRUE,
   layers |-> [i \in 1..Len(ls) |->
                 [hasNeurons |-> TRUE,
                  neurons |-> [j \in 1..Len(ls[i].neurons) |->
                                 NeuronData(ls[i].neurons[j])]]]]

\* Lines 233-256: the neuron load builds from a neuron's dictionary.
LoadNeuron(data) ==
  LET fs == FunctionsOf(data.activation)
  IN  [Neuron(0, fs[1], fs[2], Num(0), Num(0)) EXCEPT
         !.weights = data.weights, !.bias = data.bias]

\* Whether lines 222-266 run without raising on the document.
LoadRuns(doc) ==
  /\ doc.form = "json"
  /\ doc.hasLayers
  /\ \A i \in 1..Len(doc.layers) :
       /\ doc.layers[i].hasNeurons
       /\ \A j \in 1..Len(doc.layers[i].neurons) :
            NeuronKeys \subseteq doc.layers[i].neurons[j].keys

\* load(path): the network returned, or the one exception of line 268.
NetworkLoad(doc) ==
  IF ~LoadRuns(doc)
  THEN [ok |-> FALSE, kind |-> "Exception", layers |-> <<>>]
  ELSE [ok |-> TRUE, kind |-> "",
        layers |-> [i \in 1..Len(doc.layers) |->
                      [neurons |-> [j \in 1..Len(doc.layers[i].neurons) |->
                                      LoadNeuron(doc.layers[i].neurons[j])]]]]

\* Whether the model holds every number of a network and of a vector.
HeldNeuron(neuron) ==
  /\ neuron.bias # Unheld
  /\ neuron.last_output # Unheld
  /\ neuron.error # Unheld
  /\ neuron.delta # Unheld
  /\ \A n \in 1..Len(neuron.weights) : neuron.weights[n] # Unheld
  /\ \A n \in 1..Len(neuron.last_input) : neuron.last_input[n] # Unheld

HeldLayers(ls) ==
  \A i \in 1..Len(ls) : \A j \in 1..Len(ls[i].neurons) :
    HeldNeuron(ls[i].neurons[j])

HeldVector(xs) == \A n \in 1..Len(xs) : xs[n] # Unheld

\* ------------------------------------------------------------- the state
VARIABLES
  layers,   \* network.layers of the network N the caller builds and trains
  widths,   \* the num_inputs argument each layer of N was added with
  file,     \* the file at the path save and load are given
  loaded,   \* what the last load call returned
  result,   \* the last call: its arguments, how it ended, what it returned
  trains    \* the number of train calls made

vars == <<layers, widths, file, loaded, result, trains>>

NoNetwork == [returned |-> FALSE, layers |-> <<>>]

NoCall ==
  [op |-> "none", ok |-> TRUE, kind |-> "", before |-> <<>>,
   num_inputs |-> NoneInt, inputs |-> <<>>, targets |-> <<>>,
   learn_rate |-> NoneNum, outputs |-> <<>>, none |-> FALSE,
   loss |-> NoneNum, log |-> <<>>]

\* Network(): no layers.
Init ==
  /\ layers = <<>>
  /\ widths = <<>>
  /\ file = NoFile
  /\ loaded = NoNetwork
  /\ result = NoCall
  /\ trains = 0

\* N.add_layer(num_neurons, num_inputs, activation)
AddLayer(num_neurons, num_inputs, activation, w, b) ==
  /\ Len(layers) < MaxLayers
  /\ \E r \in {NetworkAddLayer(layers, num_neurons, num_inputs, activation, w, b)} :
         /\ layers' = r.layers
         /\ widths' = IF r.ok THEN Append(widths, num_inputs) ELSE widths
         /\ result' = [NoCall EXCEPT !.op = "add_layer", !.ok = r.ok,
                         !.kind = r.kind, !.before = layers,
                         !.num_inputs = num_inputs]
  /\ UNCHANGED <<file, loaded, trains>>

\* N.process(inputs)
Process(inputs) ==
  \E r \in {NetworkProcess(layers, inputs)} :
      /\ HeldLayers(r.layers) /\ HeldVector(r.outputs)
      /\ layers' = r.layers
      /\ result' = [NoCall EXCEPT !.op = "process", !.ok = r.ok,
                      !.kind = r.kind, !.before = layers, !.inputs = inputs,
                      !.outputs = r.outputs, !.none = r.none]
      /\ UNCHANGED <<widths, file, loaded, trains>>

\* N.train(inputs, targets, learn_rate)
Train(inputs, targets, learn_rate) ==
  /\ trains < MaxTrain
  /\ \E r \in {NetworkTrain(layers, inputs, targets, learn_rate)} :
         /\ HeldLayers(r.layers) /\ r.loss # Unheld
         /\ layers' = r.layers
         /\ result' = [NoCall EXCEPT !.op = "train", !.ok = r.ok,
                         !.kind = r.kind, !.before = layers,
                         !.inputs = inputs, !.targets = targets,
                         !.learn_rate = learn_rate, !.loss = r.loss,
                         !.log = r.log]
  /\ trains' = trains + 1
  /\ UNCHANGED <<widths, file, loaded>>

\* Network.save(path, N)
Save ==
  /\ file' = NetworkSave(layers)
  /\ result' = [NoCall EXCEPT !.op = "save", !.before = layers]
  /\ UNCHANGED <<layers, widths, loaded, trains>>

\* Network.load(path)
Load ==
  \E r \in {NetworkLoad(file)} :
      /\ loaded' = [returned |-> r.ok, layers |-> r.layers]
      /\ result' = [NoCall EXCEPT !.op = "load", !.ok = r.ok, !.kind = r.kind,
                      !.before = layers]
      /\ UNCHANGED <<layers, widths, file, trains>>

\* Something other than save leaves doc at the path (or removes the file).
PutFile(doc) ==
  /\ file' = doc
  /\ result' = [NoCall EXCEPT !.op = "put", !.before = layers]
  /\ UNCHANGED <<layers, widths, loaded, trains>>

\* ------------------------------------------------------ the specifications
\* The vector of len copies of v.
Const(len, v) == [i \in 1..len |-> v]

\* Building a network and running it: the input width given or omitted,
\* layers of no neurons included.
BuildActivations == {NoneFn, ACTIVATION_LINEAR}
BuildInputs == {<<>>, <<Num(0)>>, <<Num(1)>>}

NextBuild ==
  \/ \E n \in 0..MaxNeurons, ni \in {NoneInt, 1}, a \in BuildActivations :
       AddLayer(n, ni, a, Num(1), Num(0))
  \/ \E x \in BuildInputs : Process(x)

SpecBuild == Init /\ [][NextBuild]_vars

\* Training: networks of up to MaxDepth layers, consistent or not, and
\* examples whose inputs and targets have the right length or not.
TrainActivations == {ACTIVATION_LINEAR, CallerFn}
TrainInputs == {<<Num(1)>>, <<Num(1), Num(1)>>}
TrainTargets == {Const(len, Num(0)) : len \in 0..(MaxNeurons + 1)}

NextTrain ==
  \/ /\ Len(layers) < MaxDepth
     /\ \E n \in 0..MaxNeurons, ni \in {NoneInt, 1}, a \in TrainActivations :
          AddLayer(n, ni, a, Num(1), Num(0))
  \/ /\ trains < MaxCalls
     /\ \E x \in TrainInputs, t \in TrainTargets : Train(x, t, Num(1))

SpecTrain == Init /\ [][NextTrain]_vars

\* Backpropagation: networks built as add_layer documents it (the first
\* layer with an input width, the later ones without), of every depth up to
\* MaxLayers, trained on examples of the first layer's width.
BackpropActivations == {NoneFn, ACTIVATION_LINEAR, ACTIVATION_STEP}
\* Layers of one neuron and layers of MaxNeurons.
BackpropWidths == {1, MaxNeurons}
\* The examples <<inputs, targets>>, with a target for every output neuron
\* (train ignores those beyond them).
BackpropExamples ==
  {<<<<Num(-1)>>, Const(MaxNeurons, Num(1))>>,
   <<<<Num(0)>>, Const(MaxNeurons, Num(0))>>}

NextBackprop ==
  \/ \E n \in BackpropWidths, a \in BackpropActivations :
       AddLayer(n, IF layers = <<>> THEN 1 ELSE NoneInt, a, Num(1), Num(0))
  \/ \E e \in BackpropExamples : Train(e[1], e[2], Half)

SpecBackprop == Init /\ [][NextBackprop]_vars

\* Saving and loading: networks of up to MaxDepth layers, of every registered
\* activation and of a caller's own, trained or not, and files that save did
\* not write.
CodecActivations ==
  {ACTIVATION_LINEAR, ACTIVATION_TANH, ACTIVATION_SIGMOID, ACTIVATION_STEP,
   CallerFn}

NeuronDoc(keys, weights, bias, tag) ==
  [keys |-> keys, weights |-> weights, bias |-> bias, activation |-> tag]
OneLayerDoc(neuron) ==
  [form |-> "json", hasLayers |-> TRUE,
   layers |-> <<[hasNeurons |-> TRUE, neurons |-> <<neuron>>]>>]

\* {"layers": [{"neurons": [{"weights": [0.1], "bias": 0, "activation": 99}]}]}
UnknownTagDoc == OneLayerDoc(NeuronDoc(NeuronKeys, <<Rat(1, 10)>>, Num(0), 99))
\* Documents that lack a key.
NoLayersDoc == [form |-> "json", hasLayers |-> FALSE, layers |-> <<>>]
NoNeuronsDoc ==
  [form |-> "json", hasLayers |-> TRUE,
   layers |-> <<[hasNeurons |-> FALSE, neurons |-> <<>>]>>]
NoBiasDoc ==
  OneLayerDoc(NeuronDoc({"weights", "activation"}, <<Num(1)>>, Num(0), LINEAR))

OtherFiles ==
  {NoFile, Garbage, NoLayersDoc, NoNeuronsDoc, NoBiasDoc, UnknownTagDoc}

NextCodec ==
  \/ /\ Len(layers) < MaxDepth
     /\ \E a \in CodecActivations :
          AddLayer(MaxNeurons, IF layers = <<>> THEN 1 ELSE NoneInt, a,
                   Num(1), Num(0))
  \/ /\ trains < MaxCalls
     /\ Train(<<Num(0)>>, Const(MaxNeurons, Num(1)), Num(1))
  \/ Save
  \/ Load
  \/ \E doc \in OtherFiles : PutFile(doc)

SpecCodec == Init /\ [][NextCodec]_vars

\* ------------------------------------------------------------ the claims
\* What save writes of a neuron and load restores: the trained parameters.
Params(ls) ==
  [i \in 1..Len(ls) |->
     [j \in 1..Len(ls[i].neurons) |->
        <<ls[i].neurons[j].weights, ls[i].neurons[j].bias>>]]

\* The activation and derivative of every neuron.
Functions(ls) ==
  [i \in 1..Len(ls) |->
     [j \in 1..Len(ls[i].neurons) |->
        <<ls[i].neurons[j].activation, ls[i].neurons[j].derivative>>]]

AllRegistered(ls) ==
  \A i \in 1..Len(ls) : \A j \in 1..Len(ls[i].neurons) :
    ls[i].neurons[j].activation \in Registered

\* What process(x) gives the caller: how it ends and what it returns.
Outcome(ls, x) ==
  LET r == NetworkProcess(ls, x) IN <<r.ok, r.kind, r.none, r.outputs>>

ProbeInputs == {Const(len, Num(v)) : len \in 0..MaxNeurons, v \in {0, 1}}

\* C1: when load has just read the file save writes for N, every neuron of
\* N carrying a registered activation, it returned a network of the same
\* layers, neurons, weights, biases and activation/derivative pairs, and
\* process gives the same on both.
C1_RoundTrip ==
  (result.op = "load" /\ file = NetworkSave(layers) /\ AllRegistered(layers))
    => /\ loaded.returned
       /\ Params(loaded.layers) = Params(layers)
       /\ Functions(loaded.layers) = Functions(layers)
       /\ \A x \in ProbeInputs : Outcome(loaded.layers, x) = Outcome(layers, x)

\* A trained network of two layers, a Tanh and a Sigmoid one, saved and
\* loaded back.
C1_Witness ==
  /\ result.op = "load"
  /\ file = NetworkSave(layers)
  /\ AllRegistered(layers)
  /\ Len(layers) >= 2
  /\ layers[1].neurons[1].activation = ACTIVATION_TANH
  /\ layers[2].neurons[1].activation = ACTIVATION_SIGMOID
  /\ trains > 0
  /\ layers[2].neurons[1].bias # Num(0)

\* Whether a file is one load is to refuse: no file, no JSON document, a
\* document lacking a key, or a neuron whose tag is not a registered one.
BadFile(doc) ==
  \/ ~LoadRuns(doc)
  \/ \E i \in 1..Len(doc.layers) : \E j \in 1..Len(doc.layers[i].neurons) :
       doc.layers[i].neurons[j].activation \notin {LINEAR, TANH, SIGMOID, STEP}

\* C2: load of a bad file raises the one exception and returns no network.
C2_BadFileRefused ==
  (result.op = "load" /\ BadFile(file))
    => (~result.ok /\ result.kind = "Exception" /\ ~loaded.returned)

\* C3 as stated: process on a network of no layers fails.
C3_EmptyFails ==
  (result.op = "process" /\ result.before = <<>>) => ~result.ok

\* C3: process on a network of no layers raises nothing and returns None.
C3_EmptyReturnsNone ==
  (result.op = "process" /\ result.before = <<>>)
    => (result.ok /\ result.none /\ layers = <<>>)

C3_Witness == result.op = "process" /\ result.before = <<>>

\* The adjacency invariant: each layer's input width is the neuron count of
\* the layer before it.
Adjacent(ls) ==
  \A i \in 1..(Len(ls) - 1) : \A j \in 1..Len(ls[i + 1].neurons) :
    Len(ls[i + 1].neurons[j].weights) = Len(ls[i].neurons)

OutputBefore == result.before[Len(result.before)]

\* C4 as stated: train on a network of fewer than two layers fails.
C4_FewLayersFail ==
  (result.op = "train" /\ Len(result.before) < 2) => ~result.ok

\* C4: train on a network of no layers fails, at layers[-1]; on a network of
\* exactly one layer, given inputs of the layer's width, a target for every
\* neuron and a registered activation, it returns the loss
\* 0.5 * sum((target - output)^2) and leaves every weight and bias alone.
C4_OnlyEmptyFails ==
  /\ (result.op = "train" /\ Len(result.before) = 0)
       => (~result.ok /\ result.kind = "IndexError" /\ layers = <<>>)
  /\ (result.op = "train" /\ Len(result.before) = 1
        /\ AllRegistered(result.before)
        /\ Len(result.targets) >= Len(OutputBefore.neurons)
        /\ \A j \in 1..Len(OutputBefore.neurons) :
             Len(OutputBefore.neurons[j].weights) = Len(result.inputs))
       => /\ result.ok
          /\ result.loss =
               RSum([j \in 1..Len(layers[1].neurons) |->
                       RMul(Half,
                            RMul(RSub(result.targets[j],
                                      layers[1].neurons[j].last_output),
                                 RSub(result.targets[j],
                                      layers[1].neurons[j].last_output)))])
          /\ Params(layers) = Params(result.before)

\* A train call on one layer of two neurons that returned a loss other than 0.
C4_Witness ==
  /\ result.op = "train"
  /\ Len(result.before) = 1
  /\ Len(layers[1].neurons) = 2
  /\ result.ok
  /\ result.loss # Num(0)

\* C5 as stated: train fails whenever the number of targets differs from the
\* number of output neurons.
C5_AnyMismatchFails ==
  (result.op = "train" /\ Len(result.before) >= 1
     /\ Len(result.targets) # Len(OutputBefore.neurons))
    => ~result.ok

\* C5: train fails when the targets are fewer than the output neurons; when
\* they are more, the targets beyond the output layer are ignored: the call
\* ends, returns and leaves the network as it does without them.
C5_ShortFailsLongIgnored ==
  /\ (result.op = "train" /\ Len(result.before) >= 1
        /\ Len(result.targets) < Len(OutputBefore.neurons))
       => (~result.ok /\ Params(layers) = Params(result.before))
  /\ (result.op = "train" /\ Len(result.before) >= 1
        /\ Len(result.targets) > Len(OutputBefore.neurons))
       => LET r == NetworkTrain(result.before, result.inputs,
                                SubSeq(result.targets, 1,
                                       Len(OutputBefore.neurons)),
                                result.learn_rate)
          IN  /\ result.ok = r.ok
              /\ result.kind = r.kind
              /\ result.loss = r.loss
              /\ layers = r.layers

\* A train call with more targets than output neurons that returned a loss
\* and changed a weight.
C5_Witness ==
  /\ result.op = "train"
  /\ Len(result.before) >= 2
  /\ Len(result.targets) > Len(OutputBefore.neurons)
  /\ result.ok
  /\ Params(layers) # Params(result.before)

\* C6: a train call that fails leaves every weight and bias as it was, and
\* one that does not fail returns a loss.
C6_AllOrNothing ==
  (result.op = "train")
    => /\ ~result.ok => Params(layers) = Params(result.before)
       /\ result.ok => result.loss # NoneNum

\* A train call that failed after the forward pass and after errors and
\* deltas were assigned.
C6_Witness ==
  /\ result.op = "train"
  /\ ~result.ok
  /\ Len(layers) >= 2
  /\ result.kind \in {"IndexError", "UnboundLocalError", "TypeError"}
  /\ Len(layers[1].neurons) >= 1
  /\ layers[1].neurons[1].last_output # NoneNum
  /\ \E i \in 1..Len(layers) : \E j \in 1..Len(layers[i].neurons) :
       layers[i].neurons[j].error # NoneNum

\* C8 as stated: each bias increment made while neuron l of layer k is the
\* current one is learn_rate times the delta of that neuron l.
C8_BiasByCurrentDelta ==
  (result.op = "train")
    => \A e \in 1..Len(result.log) :
         result.log[e].inc =
           RMul(result.learn_rate,
                layers[result.log[e].layer - 1].neurons[result.log[e].l].delta)

\* C8: each bias increment of neuron m of layer k+1 is learn_rate times the
\* delta of that neuron m itself.
C8_BiasByOwnDelta ==
  (result.op = "train")
    => \A e \in 1..Len(result.log) :
         result.log[e].inc =
           RMul(result.learn_rate,
                layers[result.log[e].layer].neurons[result.log[e].m].delta)

\* A bias increment other than 0, made while the current neuron's delta was
\* another than the incremented neuron's.
C8_Witness ==
  /\ result.op = "train"
  /\ result.ok
  /\ \E e \in 1..Len(result.log) :
       /\ result.log[e].inc # Num(0)
       /\ layers[result.log[e].layer].neurons[result.log[e].m].delta
            # layers[result.log[e].layer - 1].neurons[result.log[e].l].delta

\* The derivative of a neuron at its last output.
DeriveAt(neuron) == Derive(neuron.derivative, neuron.last_output)
LastNeuron(layer) == layer.neurons[Len(layer.neurons)]

\* C9 as stated: the delta of a neuron of layer k is its error times the
\* derivative of the last neuron of layer k+1.
C9_DeltaByNextLayer ==
  (result.op = "train" /\ result.ok)
    => \A k \in 1..(Len(layers) - 1) : \A l \in 1..Len(layers[k].neurons) :
         layers[k].neurons[l].delta =
           RMul(DeriveAt(LastNeuron(layers[k + 1])), layers[k].neurons[l].error)

\* C9: the delta of a neuron of layer k is its error times the derivative of
\* the last neuron of the output layer, whatever k.
C9_DeltaByOutputLayer ==
  (result.op = "train" /\ result.ok)
    => \A k \in 1..(Len(layers) - 1) : \A l \in 1..Len(layers[k].neurons) :
         layers[k].neurons[l].delta =
           RMul(DeriveAt(LastNeuron(layers[Len(layers)])),
                layers[k].neurons[l].error)

\* Three layers, trained: a first-layer neuron of error other than 0, and
\* the last neurons of the second and of the output layer differ in their
\* derivative.
C9_Witness ==
  /\ result.op = "train"
  /\ result.ok
  /\ Len(layers) = 3
  /\ layers[1].neurons[1].error # Num(0)
  /\ DeriveAt(LastNeuron(layers[2])) # DeriveAt(LastNeuron(layers[3]))

\* C10: no step changes a weight or the bias of a neuron of the first layer.
C10_FirstLayerKept ==
  [][Len(layers) >= 1 => Params(layers')[1] = Params(layers)[1]]_vars

\* A second train call that changed a weight or a bias of a later layer.
C10_Witness ==
  /\ result.op = "train"
  /\ result.ok
  /\ trains = 2
  /\ Len(layers) >= 2
  /\ Params(layers) # Params(result.before)
====
